---- MODULE Spec2Model ----
(***************************************************************************)
(* A model of radiosonde.py: the bounding box test, the merge of the JSON  *)
(* input files, the two passes of SondeObservations.select_vehicles and    *)
(* the per-vehicle export done by gen_czml / gen_habhub_vehicle_track.     *)
(*                                                                         *)
(* Instants (datetime.datetime) are integers: DT_MIN is datetime.min,      *)
(* which the format '%Y-%m-%d %H:%M:%S' can produce (0001-01-01 00:00:00), *)
(* and DT_MAX is datetime.max, which it cannot (it carries microseconds),  *)
(* so parsed timestamps range over DT_MIN .. DT_MAX - 1.                   *)
(* A JSON string field is a record [numeric, val] (a coordinate) or        *)
(* [wellformed, val] (a gps_time); a list of position dicts is a sequence  *)
(* and a reference to one of its dicts is its index in that sequence.      *)
(***************************************************************************)
EXTENDS Integers, Sequences, FiniteSets, TLC

\* ------------------------------------------------------------------ bounds
MaxLen == 2
MaxTime == 3
MaxFiles == 3

DT_MIN == 0
DT_MAX == MaxTime + 1

\* ------------------------------------------------------- input vocabulary
NumStr(n) == [numeric |-> TRUE, val |-> n]
EmptyStr == [numeric |-> FALSE, val |-> 0]
TimeStr(t) == [wellformed |-> TRUE, val |-> t]
BadTimeStr == [wellformed |-> FALSE, val |-> 0]

DefaultBox ==
    [min_lon |-> 0, max_lon |-> 360, min_lat |-> -90, max_lat |-> 90,
     min_ele |-> 0, max_ele |-> 100000]
UserBox ==
    [min_lon |-> 10, max_lon |-> 11, min_lat |-> 20, max_lat |-> 21,
     min_ele |-> 30, max_ele |-> 31]
Boxes == {DefaultBox, UserBox}

DefaultWindow == [after |-> DT_MIN, before |-> DT_MAX]
UserWindow == [after |-> 1, before |-> MaxTime - 1]
Windows == {DefaultWindow, UserWindow}

Pos(v, lat, lon, alt) ==
    [vehicle |-> v, gps_lat |-> lat, gps_lon |-> lon, gps_alt |-> alt]
TimedPos(v, lat, lon, alt, ts) ==
    [vehicle |-> v, gps_lat |-> lat, gps_lon |-> lon, gps_alt |-> alt,
     gps_time |-> ts]

\* Samples on the lower bounds of UserBox, with every kind of gps_time.
CornerRecords ==
    {TimedPos("A", NumStr(20), NumStr(10), NumStr(30), TimeStr(t)) : t \in DT_MIN..MaxTime}
    \cup {TimedPos("A", NumStr(20), NumStr(10), NumStr(30), BadTimeStr),
          Pos("A", NumStr(20), NumStr(10), NumStr(30)),
          TimedPos("B", NumStr(20), NumStr(10), NumStr(30), TimeStr(DT_MIN)),
          TimedPos("B", NumStr(20), NumStr(10), NumStr(30), TimeStr(MaxTime)),
          Pos("B", NumStr(20), NumStr(10), NumStr(30))}
\* Samples that leave the corner in one coordinate: on the upper bound,
\* one unit below the lower bound, one unit above the upper bound.
EdgeRecords ==
    {TimedPos("A", NumStr(21), NumStr(10), NumStr(30), TimeStr(1)),
     TimedPos("A", NumStr(20), NumStr(11), NumStr(30), TimeStr(1)),
     TimedPos("A", NumStr(20), NumStr(10), NumStr(31), TimeStr(1)),
     TimedPos("A", NumStr(19), NumStr(10), NumStr(30), TimeStr(DT_MIN)),
     TimedPos("A", NumStr(20), NumStr(9), NumStr(30), TimeStr(DT_MIN)),
     TimedPos("A", NumStr(20), NumStr(10), NumStr(29), TimeStr(DT_MIN)),
     TimedPos("A", NumStr(22), NumStr(10), NumStr(30), TimeStr(MaxTime)),
     TimedPos("A", NumStr(20), NumStr(12), NumStr(30), TimeStr(MaxTime)),
     TimedPos("A", NumStr(20), NumStr(10), NumStr(32), TimeStr(MaxTime))}
\* Western longitudes and altitudes below sea level.
NegativeRecords ==
    {TimedPos("A", NumStr(20), NumStr(-1), NumStr(30), TimeStr(1)),
     TimedPos("A", NumStr(20), NumStr(10), NumStr(-1), TimeStr(1))}
\* Samples with one empty coordinate field, as "gps_heading": "".
NonNumericRecords ==
    {TimedPos("A", EmptyStr, NumStr(10), NumStr(30), TimeStr(1)),
     TimedPos("A", NumStr(20), EmptyStr, NumStr(30), TimeStr(1)),
     TimedPos("A", NumStr(20), NumStr(10), EmptyStr, TimeStr(1))}
Records == CornerRecords \cup EdgeRecords \cup NegativeRecords \cup NonNumericRecords

RECURSIVE SeqsUpTo(_, _)
SeqsUpTo(S, n) ==
    IF n = 0 THEN {<<>>}
    ELSE LET shorter == SeqsUpTo(S, n - 1)
         IN  shorter \cup {Append(s, x) : s \in shorter, x \in S}

VARIABLES
    pc,           \* position in gen_czml / select_vehicles
    exc,          \* the exception that ended the run, or "none"
    bbox,         \* self.bbox
    after,        \* self.after
    before,       \* self.before
    first_seen,   \* self.first_seen
    last_seen,    \* self.last_seen
    poslist,      \* self.habhub_positions['positions']['position']
    parsed_time,  \* index of a dict |-> its 'parsed_time' entry, once set
    order,        \* the keys of the dict vehicles, in insertion order
    vehicles,     \* the dict vehicles: name |-> list of references
    idx,          \* number of dicts the second loop has taken
    vidx,         \* number of vehicles gen_czml has taken
    packets,      \* the list packets of gen_czml
    files,        \* the files handed to _read_json: parsed documents or garbage
    fidx,         \* number of files _read_json has taken
    p             \* the dict p of _read_json

vars == <<pc, exc, bbox, after, before, first_seen, last_seen, poslist,
          parsed_time, order, vehicles, idx, vidx, packets, files, fidx, p>>
pipeVars == <<exc, bbox, after, before, first_seen, last_seen,
              parsed_time, order, vehicles, idx, vidx, packets>>

EmptyMap == [x \in {} |-> 0]

\* ------------------------------------------------------------ BoundingBox
\* float(x) of a JSON string field: its number, or ValueError.
CanFloat(s) == s.numeric
Float(s) == s.val

\* within_box with the upper latitude bound exclusive.
within_box_OpenMaxLat(b, lat, lon, ele) ==
    /\ ele >= b.min_ele /\ ele <= b.max_ele
    /\ lat >= b.min_lat /\ lat < b.max_lat
    /\ lon >= b.min_lon /\ lon <= b.max_lon

within_box(b, lat, lon, ele) ==
    /\ ele >= b.min_ele /\ ele <= b.max_ele
    /\ lat >= b.min_lat /\ lat <= b.max_lat
    /\ lon >= b.min_lon /\ lon <= b.max_lon

habhub_pos_raises(r) ==
    ~(CanFloat(r.gps_lat) /\ CanFloat(r.gps_lon) /\ CanFloat(r.gps_alt))
habhub_pos_in_bbox(b, r) ==
    within_box(b, Float(r.gps_lat), Float(r.gps_lon), Float(r.gps_alt))

\* ------------------------------------------------------- select_vehicles
\* datetime.strptime(s, '%Y-%m-%d %H:%M:%S'): the instant, or ValueError.
CanStrptime(s) == s.wellformed
Strptime(s) == s.val

HasGpsTime(r) == "gps_time" \in DOMAIN r

NewLastSeen(last, t) == IF last < t THEN t ELSE last
\* The span updated after the window test instead of before it.
NewFirstSeen_InWindowOnly(first, t) ==
    IF t < after \/ t > before THEN first ELSE IF first > t THEN t ELSE first

NewFirstSeen(first, t) == IF first > t THEN t ELSE first

\* The window test without its upper bound.
OutsideWindow_NoUpper(t, a, b) == t < a

OutsideWindow(t, a, b) == t < a \/ t > b

\* The sample put in front of the list.
AppendPosition_InFront(track, i) == <<i>> \o track

AppendPosition(track, i) == Append(track, i)

RECURSIVE KeyOrder(_, _)
\* The insertion order of the keys that the first loop leaves in the dict.
KeyOrder(list, seen) ==
    IF list = <<>> THEN <<>>
    ELSE IF Head(list).vehicle \in seen THEN KeyOrder(Tail(list), seen)
    ELSE <<Head(list).vehicle>> \o KeyOrder(Tail(list), seen \cup {Head(list).vehicle})

\* ------------------------------------------- gen_habhub_vehicle_track
format_datetime_like(t) == [iso |-> t]

TrackStop(stop, t) == IF stop < t THEN t ELSE stop
\* The start taken from the sample at hand.
TrackStart_Latest(start, t) == t

TrackStart(start, t) == IF start > t THEN t ELSE start

RECURSIVE StopOver(_, _, _)
StopOver(plist, pt, stop) ==
    IF plist = <<>> THEN stop
    ELSE StopOver(Tail(plist), pt, TrackStop(stop, pt[Head(plist)]))

RECURSIVE StartOver(_, _, _)
StartOver(plist, pt, start) ==
    IF plist = <<>> THEN start
    ELSE StartOver(Tail(plist), pt, TrackStart(start, pt[Head(plist)]))

RECURSIVE gen_position_list(_, _, _)
gen_position_list(plist, list, pt) ==
    IF plist = <<>> THEN <<>>
    ELSE LET r == list[Head(plist)]
         IN  <<format_datetime_like(pt[Head(plist)]),
               Float(r.gps_lon), Float(r.gps_lat), Float(r.gps_alt)>>
             \o gen_position_list(Tail(plist), list, pt)

\* p['parsed_time'] of some dict of the list raises KeyError.
TrackRaises(plist, pt) == \E k \in 1..Len(plist) : plist[k] \notin DOMAIN pt

gen_habhub_vehicle_track(v, plist, list, pt) ==
    [id |-> v,
     availability |-> [start |-> StartOver(plist, pt, DT_MAX),
                       end |-> StopOver(plist, pt, DT_MIN)],
     position |-> gen_position_list(plist, list, pt)]

\* The test for an empty list dropped.
HasPositions_Always(plist) == Len(plist) >= 0

HasPositions(plist) == Len(plist) > 0

\* ------------------------------------------------------------- _read_json
\* {**js, **p}: the earlier document wins.
MergeDicts_FirstWins(a, b) ==
    [k \in DOMAIN a \cup DOMAIN b |-> IF k \in DOMAIN a THEN a[k] ELSE b[k]]

MergeDicts(a, b) ==
    [k \in DOMAIN a \cup DOMAIN b |-> IF k \in DOMAIN b THEN b[k] ELSE a[k]]

Keys == {"positions", "receivers"}
Vals == {<<1>>, <<2>>}
Dicts == UNION {[K -> Vals] : K \in SUBSET Keys}
\* A file holds a JSON object, a JSON value that is no object, or no JSON.
Documents ==
    {[kind |-> "object", js |-> d] : d \in Dicts}
    \cup {[kind |-> "array", js |-> EmptyMap], [kind |-> "invalid", js |-> EmptyMap]}

\* ------------------------------------------------------------------ Init
InitPipe ==
    /\ exc = "none"
    /\ first_seen = DT_MAX
    /\ last_seen = DT_MIN
    /\ parsed_time = EmptyMap
    /\ order = <<>>
    /\ vehicles = EmptyMap
    /\ idx = 0
    /\ vidx = 0
    /\ packets = <<>>

Init ==
    /\ pc = "select_vehicles"
    /\ bbox \in Boxes
    /\ \E w \in Windows : after = w.after /\ before = w.before
    /\ poslist \in SeqsUpTo(Records, MaxLen)
    /\ InitPipe
    /\ files = <<>> /\ fidx = 0 /\ p = EmptyMap

InitRead ==
    /\ pc = "read_json"
    /\ files \in SeqsUpTo(Documents, MaxFiles)
    /\ fidx = 0
    /\ p = EmptyMap
    /\ bbox = DefaultBox /\ after = DT_MIN /\ before = DT_MAX
    /\ poslist = <<>>
    /\ InitPipe

\* --------------------------------------------------------------- actions
\* select_vehicles, first loop: one empty list per vehicle of the input.
CollectVehicles ==
    /\ pc = "select_vehicles"
    /\ vehicles' = [v \in {poslist[i].vehicle : i \in 1..Len(poslist)} |-> <<>>]
    /\ order' = KeyOrder(poslist, {})
    /\ pc' = "collate"
    /\ UNCHANGED <<exc, bbox, after, before, first_seen, last_seen, poslist,
                   parsed_time, idx, vidx, packets, files, fidx, p>>

\* select_vehicles, one iteration of the second loop.
CollatePosition ==
    /\ pc = "collate"
    /\ idx < Len(poslist)
    /\ LET i == idx + 1
           r == poslist[i]
       IN  IF habhub_pos_raises(r)
           THEN /\ pc' = "raised" /\ exc' = "ValueError"
                /\ UNCHANGED <<idx, parsed_time, first_seen, last_seen, vehicles>>
           ELSE IF ~habhub_pos_in_bbox(bbox, r)
           THEN /\ idx' = i
                /\ UNCHANGED <<pc, exc, parsed_time, first_seen, last_seen, vehicles>>
           ELSE IF ~HasGpsTime(r)
           THEN /\ idx' = i
                /\ vehicles' = [vehicles EXCEPT ![r.vehicle] = AppendPosition(@, i)]
                /\ UNCHANGED <<pc, exc, parsed_time, first_seen, last_seen>>
           ELSE IF ~CanStrptime(r.gps_time)
           THEN /\ pc' = "raised" /\ exc' = "ValueError"
                /\ UNCHANGED <<idx, parsed_time, first_seen, last_seen, vehicles>>
           ELSE LET gps_time == Strptime(r.gps_time)
                IN  /\ idx' = i
                    /\ parsed_time' = (i :> gps_time) @@ parsed_time
                    /\ last_seen' = NewLastSeen(last_seen, gps_time)
                    /\ first_seen' = NewFirstSeen(first_seen, gps_time)
                    /\ vehicles' =
                         IF OutsideWindow(gps_time, after, before)
                         THEN vehicles
                         ELSE [vehicles EXCEPT ![r.vehicle] = AppendPosition(@, i)]
                    /\ UNCHANGED <<pc, exc>>
    /\ UNCHANGED <<bbox, after, before, poslist, order, vidx, packets, files, fidx, p>>

\* select_vehicles returns the dict to gen_czml.
SelectVehiclesReturn ==
    /\ pc = "collate"
    /\ idx = Len(poslist)
    /\ pc' = "export"
    /\ UNCHANGED <<exc, bbox, after, before, first_seen, last_seen, poslist,
                   parsed_time, order, vehicles, idx, vidx, packets, files, fidx, p>>

\* gen_czml, one iteration of the loop over vehicles.items().
ExportVehicle ==
    /\ pc = "export"
    /\ vidx < Len(order)
    /\ LET v == order[vidx + 1]
           plist == vehicles[v]
       IN  IF ~HasPositions(plist)
           THEN /\ vidx' = vidx + 1
                /\ UNCHANGED <<pc, exc, packets>>
           ELSE IF TrackRaises(plist, parsed_time)
           THEN /\ pc' = "raised" /\ exc' = "KeyError"
                /\ UNCHANGED <<vidx, packets>>
           ELSE /\ vidx' = vidx + 1
                /\ packets' = Append(packets,
                       gen_habhub_vehicle_track(v, plist, poslist, parsed_time))
                /\ UNCHANGED <<pc, exc>>
    /\ UNCHANGED <<bbox, after, before, first_seen, last_seen, poslist,
                   parsed_time, order, vehicles, idx, files, fidx, p>>

\* gen_czml returns packets.
GenCzmlReturn ==
    /\ pc = "export"
    /\ vidx = Len(order)
    /\ pc' = "done"
    /\ UNCHANGED <<exc, bbox, after, before, first_seen, last_seen, poslist,
                   parsed_time, order, vehicles, idx, vidx, packets, files, fidx, p>>

\* _read_json, one iteration of the loop over files.
ReadFile ==
    /\ pc = "read_json"
    /\ fidx < Len(files)
    /\ LET doc == files[fidx + 1]
       IN  p' = IF doc.kind = "object" THEN MergeDicts(p, doc.js) ELSE p
    /\ fidx' = fidx + 1
    /\ UNCHANGED <<pc, files>>
    /\ UNCHANGED pipeVars
    /\ UNCHANGED poslist

\* _read_json returns p.
ReadReturn ==
    /\ pc = "read_json"
    /\ fidx = Len(files)
    /\ pc' = "read_done"
    /\ UNCHANGED <<files, fidx, p, poslist>>
    /\ UNCHANGED pipeVars

Next ==
    \/ CollectVehicles
    \/ CollatePosition
    \/ SelectVehiclesReturn
    \/ ExportVehicle
    \/ GenCzmlReturn

Spec == Init /\ [][Next]_vars

NextRead == ReadFile \/ ReadReturn

SpecRead == InitRead /\ [][NextRead]_vars

\* ------------------------------------------------------------ properties
\* What the claims speak of, stated on the raw input and the configuration.
Numeric(r) == r.gps_lat.numeric /\ r.gps_lon.numeric /\ r.gps_alt.numeric
Timed(r) == "gps_time" \in DOMAIN r /\ r.gps_time.wellformed
Malformed(r) == ~Numeric(r) \/ ("gps_time" \in DOMAIN r /\ ~r.gps_time.wellformed)

InVolume(r) ==
    /\ bbox.min_ele <= r.gps_alt.val /\ r.gps_alt.val <= bbox.max_ele
    /\ bbox.min_lat <= r.gps_lat.val /\ r.gps_lat.val <= bbox.max_lat
    /\ bbox.min_lon <= r.gps_lon.val /\ r.gps_lon.val <= bbox.max_lon
InWindow(r) == after <= r.gps_time.val /\ r.gps_time.val <= before

Accepted(r) ==
    /\ Numeric(r)
    /\ InVolume(r)
    /\ "gps_time" \in DOMAIN r => (r.gps_time.wellformed /\ InWindow(r))

Scanned == pc \in {"export", "done"}
Range(q) == {q[k] : k \in 1..Len(q)}
Min(S) == CHOOSE x \in S : \A y \in S : x <= y
Max(S) == CHOOSE x \in S : \A y \in S : x >= y

RECURSIVE AcceptedOf(_, _)
\* The indices i >= from of the accepted records of vehicle v, in raw order.
AcceptedFrom(v, from) ==
    {i \in from..Len(poslist) : poslist[i].vehicle = v /\ Accepted(poslist[i])}
AcceptedOf(v, from) ==
    IF AcceptedFrom(v, from) = {} THEN <<>>
    ELSE LET i == Min(AcceptedFrom(v, from)) IN <<i>> \o AcceptedOf(v, i + 1)

SampleTimes(pos) == {pos[4 * k - 3].iso : k \in 1..(Len(pos) \div 4)}

\* C1: the coordinate sequence of every exported vehicle lists the accepted
\* records of that vehicle in the order of the raw list: the k-th group of
\* four is the time, longitude, latitude and altitude of the k-th accepted
\* record of the vehicle, whatever the timestamps are.
C1_RawOrderKept ==
    \A n \in 1..Len(packets) :
        LET pos == packets[n].position
            acc == AcceptedOf(packets[n].id, 1)
        IN  /\ Len(pos) = 4 * Len(acc)
            /\ \A k \in 1..Len(acc) :
                   /\ pos[4 * k - 3] = [iso |-> poslist[acc[k]].gps_time.val]
                   /\ pos[4 * k - 2] = poslist[acc[k]].gps_lon.val
                   /\ pos[4 * k - 1] = poslist[acc[k]].gps_lat.val
                   /\ pos[4 * k] = poslist[acc[k]].gps_alt.val

\* A vehicle was exported whose two samples go back in time.
C1_Witness ==
    /\ pc = "done"
    /\ \E n \in 1..Len(packets) :
           /\ Len(packets[n].position) = 8
           /\ packets[n].position[1].iso > packets[n].position[5].iso

\* A vehicle was exported whose two samples carry the same timestamp but
\* differ in position.
C1_WitnessDuplicate ==
    /\ pc = "done"
    /\ \E n \in 1..Len(packets) :
           /\ Len(packets[n].position) = 8
           /\ packets[n].position[1] = packets[n].position[5]
           /\ packets[n].position[3] # packets[n].position[7]

\* C2 (as claimed): a malformed record never aborts the run, and the tracks
\* of a completed scan are those of the input without the malformed records.
C2_MalformedRejected ==
    /\ \A i \in 1..Len(poslist) : Malformed(poslist[i]) => exc # "ValueError"
    /\ Scanned => \A v \in DOMAIN vehicles : vehicles[v] = AcceptedOf(v, 1)

\* C3 (as claimed): with the default volume and window every scanned record
\* that is well formed and a position on Earth is in its vehicle's track.
OnEarth(r) ==
    /\ -90 <= r.gps_lat.val /\ r.gps_lat.val <= 90
    /\ -180 <= r.gps_lon.val /\ r.gps_lon.val <= 360
C3_DefaultAcceptsAll ==
    (bbox = DefaultBox /\ after = DT_MIN /\ before = DT_MAX) =>
        \A i \in 1..idx :
            (~Malformed(poslist[i]) /\ OnEarth(poslist[i])) =>
                i \in Range(vehicles[poslist[i].vehicle])

\* C4: a scanned record with numeric coordinates and a timestamp of the
\* format is in the track of its vehicle, and of no other, exactly if it
\* satisfies all eight inclusive comparisons.
C4_InclusiveBounds ==
    \A i \in 1..idx :
        LET r == poslist[i] IN
        (Numeric(r) /\ Timed(r)) =>
            /\ i \in Range(vehicles[r.vehicle]) <=>
                 /\ bbox.min_ele <= r.gps_alt.val /\ r.gps_alt.val <= bbox.max_ele
                 /\ bbox.min_lat <= r.gps_lat.val /\ r.gps_lat.val <= bbox.max_lat
                 /\ bbox.min_lon <= r.gps_lon.val /\ r.gps_lon.val <= bbox.max_lon
                 /\ after <= r.gps_time.val /\ r.gps_time.val <= before
            /\ \A v \in DOMAIN vehicles \ {r.vehicle} : i \notin Range(vehicles[v])

\* The scan took a record on the upper latitude bound and on `after', which
\* it kept, and a record one unit above the upper altitude bound, which it
\* dropped.
C4_Witness ==
    /\ pc = "done"
    /\ idx = 2
    /\ \E i, j \in 1..idx :
           /\ Numeric(poslist[i]) /\ Timed(poslist[i])
           /\ poslist[i].gps_lat.val = bbox.max_lat
           /\ poslist[i].gps_time.val = after
           /\ i \in Range(vehicles[poslist[i].vehicle])
           /\ Numeric(poslist[j]) /\ Timed(poslist[j])
           /\ poslist[j].gps_alt.val = bbox.max_ele + 1
           /\ j \notin Range(vehicles[poslist[j].vehicle])

\* C5 (as claimed): the export of every track succeeds, also of a track that
\* holds a record without gps_time, and has four values per sample.
C5_ExportSucceeds ==
    /\ exc # "KeyError"
    /\ \A n \in 1..Len(packets) :
           Len(packets[n].position) = 4 * Len(vehicles[packets[n].id])

\* C6: the packets gen_czml returns are one per vehicle that has an accepted
\* sample; every vehicle of the input is a key of the dict, with an empty
\* list if all its samples were rejected, and then it has no packet.
C6_OnlyNonEmptyExported ==
    pc = "done" =>
        /\ {packets[n].id : n \in 1..Len(packets)} =
               {poslist[i].vehicle : i \in {j \in 1..Len(poslist) : Accepted(poslist[j])}}
        /\ Cardinality({packets[n].id : n \in 1..Len(packets)}) = Len(packets)
        /\ \A i \in 1..Len(poslist) :
               LET v == poslist[i].vehicle IN
               /\ v \in DOMAIN vehicles
               /\ (\A j \in 1..Len(poslist) :
                       poslist[j].vehicle = v => ~Accepted(poslist[j]))
                  => /\ vehicles[v] = <<>>
                     /\ \A n \in 1..Len(packets) : packets[n].id # v

\* One vehicle was exported and another one, all of whose samples were
\* rejected, is a key with an empty list.
C6_Witness ==
    /\ pc = "done"
    /\ Len(packets) = 1
    /\ \E v \in DOMAIN vehicles : vehicles[v] = <<>>

\* C7: the availability of every exported track starts at the least and ends
\* at the greatest timestamp of the samples of that track, so start <= end,
\* and start = end for a track of one sample.
C7_AvailabilityIsMinMax ==
    \A n \in 1..Len(packets) :
        LET track == vehicles[packets[n].id]
            T == {poslist[track[k]].gps_time.val : k \in 1..Len(track)}
            a == packets[n].availability
        IN  /\ T # {}
            /\ a.start \in T /\ \A t \in T : a.start <= t
            /\ a.end \in T /\ \A t \in T : t <= a.end
            /\ a.start <= a.end
            /\ Len(track) = 1 => a.start = a.end

\* A track of two samples in rising order of time was exported.
C7_Witness ==
    /\ pc = "done"
    /\ \E n \in 1..Len(packets) :
           /\ Len(packets[n].position) = 8
           /\ packets[n].position[1].iso < packets[n].position[5].iso
           /\ packets[n].availability.start < packets[n].availability.end

\* C8: after every file taken, p has exactly the top-level keys of the JSON
\* objects read so far, each with the whole value of the last object that
\* has the key; a file that is no JSON object leaves p as it was.
LastWith(k, n) ==
    Max({j \in 1..n : files[j].kind = "object" /\ k \in DOMAIN files[j].js})
C8_ShallowUnionLastWins ==
    /\ DOMAIN p = {k \in Keys : \E j \in 1..fidx :
                       files[j].kind = "object" /\ k \in DOMAIN files[j].js}
    /\ \A k \in DOMAIN p : p[k] = files[LastWith(k, fidx)].js[k]

\* Two objects with different values of "positions" were read around a file
\* that does not parse; the first one alone has "receivers".
C8_Witness ==
    /\ pc = "read_done"
    /\ Len(files) = 3
    /\ files[1].kind = "object" /\ files[2].kind = "invalid" /\ files[3].kind = "object"
    /\ DOMAIN files[1].js = Keys
    /\ DOMAIN files[3].js = {"positions"}
    /\ files[1].js["positions"] # files[3].js["positions"]

\* C9: after k records of the scan, first_seen and last_seen are the least
\* and greatest timestamp of those of the k records that carry a timestamp
\* and lie in the volume, inside the window or not, and the initial values if
\* there is none; first_seen never increases and last_seen never decreases.
SpanTimes(k) ==
    {poslist[i].gps_time.val :
        i \in {j \in 1..k : /\ Numeric(poslist[j]) /\ InVolume(poslist[j])
                            /\ Timed(poslist[j])}}
SpanIsMinMax ==
    IF SpanTimes(idx) = {}
    THEN first_seen = DT_MAX /\ last_seen = DT_MIN
    ELSE first_seen = Min(SpanTimes(idx)) /\ last_seen = Max(SpanTimes(idx))
C9_SessionSpan ==
    /\ []SpanIsMinMax
    /\ [][first_seen' <= first_seen /\ last_seen' >= last_seen]_vars

\* The whole list was scanned, the span begins before `after' and ends after
\* `before'.
C9_Witness ==
    /\ pc = "done"
    /\ idx = 2
    /\ first_seen < after
    /\ last_seen > before

\* A record outside the volume carries a timestamp that is earlier than
\* first_seen after the whole list was scanned.
C9_WitnessOutside ==
    /\ pc = "done"
    /\ \E i \in 1..Len(poslist) :
           /\ Numeric(poslist[i]) /\ Timed(poslist[i]) /\ ~InVolume(poslist[i])
           /\ poslist[i].gps_time.val < first_seen
    /\ first_seen < DT_MAX

\* C10: when gen_czml has returned, the session span contains the
\* availability of every packet, and every exported timestamp lies between
\* the later of after and first_seen and the earlier of before and last_seen.
C10_SpanContainsTracks ==
    pc = "done" =>
        \A n \in 1..Len(packets) :
            /\ first_seen <= packets[n].availability.start
            /\ packets[n].availability.end <= last_seen
            /\ \A t \in SampleTimes(packets[n].position) :
                   /\ Max({after, first_seen}) <= t
                   /\ t <= Min({before, last_seen})

\* A track was exported while the span is wider than the window.
C10_Witness ==
    /\ pc = "done"
    /\ Len(packets) = 1
    /\ last_seen > before
    /\ packets[1].availability.end = before

====
